---- MODULE Spec2Model ----
(***************************************************************************)
(* Model of the secure-refactoring evaluation framework:                   *)
(*   code/config.py, code/security_patterns.py, code/risk_profiler.py,     *)
(*   code/ast_validator.py, code/secure_executor.py, code/metrics.py,      *)
(*   code/compliance.py.                                                   *)
(*                                                                         *)
(* A Python str is a sequence of one-character strings, so that substring  *)
(* search, case folding, split() and strip() are computed character by     *)
(* character as the interpreter computes them.                             *)
(***************************************************************************)
EXTENDS Integers, Sequences, FiniteSets

VARIABLES
    pc,            \* position of ComplianceVerifier.verify
    generated,     \* verify's argument `generated`
    source,        \* verify's argument `source`
    test_cases,    \* verify's argument `test_cases` ([given |-> FALSE] is None)
    issues,        \* verify's local list `issues`
    ast_result,    \* verify's local `ast_result`, with the parser outcome it came from
    source_vulns,  \* verify's local `source_vulns`
    gen_vulns,     \* verify's local `gen_vulns`
    tc_runs,       \* number of execute_script calls made by the loop of layer 3
    tc_failed,     \* whether the loop of layer 3 took its `break`
    exit_code,     \* verify's local `exit_code`, of the last execute_script call
    stdout,        \* verify's local `stdout`, of the last execute_script call
    sim,           \* verify's local `sim`, an exact fraction
    compliant,     \* verify's local `compliant`
    scorer,        \* last call of SecurityPatterns.calculate_risk / contains_critical
    metrics,       \* last call of Metrics.vulnerability_introduction_rate
    executor,      \* last call of SecureExecutor.execute
    rates,         \* last call of an aggregate metric of Metrics
    similarity,    \* last call of CodeBLEU.compute
    sanitizer,     \* last call of the sanitizer (transformation or profile_and_sanitize)
    sandbox_dir,   \* the files of SecureExecutor.sandbox_dir
    calls          \* the execute_script calls under way, one per worker

verifyVars == <<pc, generated, source, test_cases, issues, ast_result,
                source_vulns, gen_vulns, tc_runs, tc_failed, exit_code, stdout,
                sim, compliant>>
vars == <<pc, generated, source, test_cases, issues, ast_result,
          source_vulns, gen_vulns, tc_runs, tc_failed, exit_code, stdout, sim, compliant,
          scorer, metrics, executor, rates, similarity, sanitizer, sandbox_dir, calls>>

----------------------------------------------------------------------------
(* Bounds of the model *)

\* longest test_cases list handed to verify
MaxTests == 2
\* most words in a command handed to the risk scorer
MaxWords == 3
\* longest list handed to the aggregate metrics
MaxPairs == 2
\* most entries in the parameters dict handed to execute
MaxParams == 2
\* number of workers calling execute_script on the same sandbox directory
MaxWorkers == 2

----------------------------------------------------------------------------
(* Python str operations *)

UPPERCASE == <<"A","B","C","D","E","F","G","H","I","J","K","L","M",
               "N","O","P","Q","R","S","T","U","V","W","X","Y","Z">>
LOWERCASE == <<"a","b","c","d","e","f","g","h","i","j","k","l","m",
               "n","o","p","q","r","s","t","u","v","w","x","y","z">>
DIGITS == {"0","1","2","3","4","5","6","7","8","9"}

\* case folding of ASCII letters, as re.IGNORECASE compares them
LowerTable ==
    [c \in { UPPERCASE[i] : i \in 1..26 } |->
        LOWERCASE[CHOOSE i \in 1..26 : UPPERCASE[i] = c]]

LowerChar(c) == IF c \in DOMAIN LowerTable THEN LowerTable[c] ELSE c

LowerStr(s) == [i \in 1..Len(s) |-> LowerChar(s[i])]

\* Python's `p in s` on two str: p occurs in s as a contiguous substring
StrIn(p, s) ==
    \E i \in 0..(Len(s) - Len(p)) : SubSeq(s, i + 1, i + Len(p)) = p

\* re.search(pat, s, re.IGNORECASE) for a pattern without metacharacters (every
\* configured pattern is letters, '-' and ' '): a case-insensitive substring search
ReSearchIgnoreCase(pat, s) == StrIn(LowerStr(pat), LowerStr(s))

IsSpace(c) == c \in {" ", "\n", "\t"}

\* set(s.split()): the maximal runs of non-whitespace characters
SplitSet(s) ==
    LET starts == { i \in 1..Len(s) : ~IsSpace(s[i]) /\ (i = 1 \/ IsSpace(s[i - 1])) }
        EndOf(i) == CHOOSE j \in i..Len(s) :
                        /\ j = Len(s) \/ IsSpace(s[j + 1])
                        /\ \A k \in i..j : ~IsSpace(s[k])
    IN  { SubSeq(s, i, EndOf(i)) : i \in starts }

\* s.strip(): leading and trailing whitespace removed
Strip(s) ==
    LET keep == { i \in 1..Len(s) : ~IsSpace(s[i]) }
    IN  IF keep = {} THEN <<>>
        ELSE SubSeq(s, CHOOSE i \in keep : \A k \in keep : i <= k,
                       CHOOSE j \in keep : \A k \in keep : k <= j)

RECURSIVE JoinWith(_, _)
\* sep.join(parts)
JoinWith(sep, parts) ==
    IF parts = <<>> THEN <<>>
    ELSE IF Len(parts) = 1 THEN parts[1]
    ELSE parts[1] \o sep \o JoinWith(sep, Tail(parts))

----------------------------------------------------------------------------
(* config.py *)

CRITICAL_PATTERNS ==
    << <<"I","n","v","o","k","e","-","E","x","p","r","e","s","s","i","o","n">>,
       <<"I","E","X">>,
       <<"I","n","v","o","k","e","-","M","i","m","i","k","a","t","z">> >>
HIGH_RISK_PATTERNS ==
    << <<"D","o","w","n","l","o","a","d","S","t","r","i","n","g">>,
       <<"E","x","e","c","u","t","i","o","n","P","o","l","i","c","y"," ","B","y","p","a","s","s">>,
       <<"B","y","p","a","s","s">> >>
MEDIUM_RISK_PATTERNS ==
    << <<"W","i","n","d","o","w","S","t","y","l","e"," ","H","i","d","d","e","n">>,
       <<"E","n","c","o","d","e","d","C","o","m","m","a","n","d">>,
       <<"E","n","c","o","d","e","d","C","o","m","m","a","n","d">>,
       <<"-","E","n","c","o","d","e","d","C","o","m","m","a","n","d">> >>
LOW_RISK_PATTERNS ==
    << <<"G","e","t","-","P","r","o","c","e","s","s">>,
       <<"G","e","t","-","S","e","r","v","i","c","e">>,
       <<"G","e","t","-","C","h","i","l","d","I","t","e","m">>,
       <<"G","e","t","-","C","o","n","t","e","n","t">> >>

CRITICAL_WEIGHT == 3
HIGH_WEIGHT == 2
MEDIUM_WEIGHT == 1
LOW_WEIGHT == 0

----------------------------------------------------------------------------
(* security_patterns.py *)

RECURSIVE AddMatches(_, _, _, _)
\* `for pat in pats: if re.search(pat, command, re.IGNORECASE): score += weight`
AddMatches(score, pats, command, weight) ==
    IF pats = <<>> THEN score
    ELSE AddMatches(IF ReSearchIgnoreCase(Head(pats), command)
                        THEN score + weight ELSE score,
                    Tail(pats), command, weight)

Min(a, b) == IF a <= b THEN a ELSE b

calculate_risk(command) ==
    LET critical == AddMatches(0, CRITICAL_PATTERNS, command, CRITICAL_WEIGHT)
        high     == AddMatches(critical, HIGH_RISK_PATTERNS, command, HIGH_WEIGHT)
        medium   == AddMatches(high, MEDIUM_RISK_PATTERNS, command, MEDIUM_WEIGHT)
        low      == AddMatches(medium, LOW_RISK_PATTERNS, command, LOW_WEIGHT)
    IN  Min(low, 10)

contains_critical(command) ==
    \E i \in 1..Len(CRITICAL_PATTERNS) : ReSearchIgnoreCase(CRITICAL_PATTERNS[i], command)

contains_high(command) ==
    \E i \in 1..Len(HIGH_RISK_PATTERNS) : ReSearchIgnoreCase(HIGH_RISK_PATTERNS[i], command)

----------------------------------------------------------------------------
(* ast_validator.py *)

\* the outcomes of subprocess.run on the external parser and of reading its stdout
ParserFailureKinds ==
    { "exit_nonzero",          \* result.returncode != 0
      "raise_timeout",         \* subprocess.TimeoutExpired after timeout=5
      "raise_not_started",     \* FileNotFoundError: the executable cannot be started
      "stdout_not_json",       \* json.loads raises JSONDecodeError
      "json_not_object",       \* a JSON array, null, number: data.get raises AttributeError
      "object_without_Nodes",  \* a JSON object with no "Nodes" key
      "Nodes_not_array" }      \* "Nodes" is null or a number: `in` raises TypeError

NodeLists ==
    { <<>>,
      <<"ScriptBlockAst", "CommandAst">>,
      <<"CommandAst", "InvokeExpressionAst">>,
      <<"MemberExpressionAst">>,
      <<"EncodedCommand">> }

ParserOutcomes ==
    [kind : ParserFailureKinds, nodes : {<<>>}] \cup [kind : {"ok"}, nodes : NodeLists]

\* str(e) of the exception that each outcome raises inside the try block
ExceptionText(kind) ==
    CASE kind = "raise_timeout"     -> "Command timed out after 5 seconds"
      [] kind = "raise_not_started" -> "No such file or directory"
      [] kind = "stdout_not_json"   -> "Expecting value"
      [] kind = "json_not_object"   -> "object has no attribute 'get'"
      [] kind = "Nodes_not_array"   -> "argument is not iterable"

InSeq(x, seq) == \E i \in 1..Len(seq) : seq[i] = x

STR_DownloadString == <<"D","o","w","n","l","o","a","d","S","t","r","i","n","g">>
STR_DashEncodedCommand == <<"-","E","n","c","o","d","e","d","C","o","m","m","a","n","d">>
STR_WindowStyleHidden == <<"W","i","n","d","o","w","S","t","y","l","e"," ","H","i","d","d","e","n">>

_detect_vulnerabilities(node_types, code) ==
    (IF InSeq("InvokeExpressionAst", node_types)
        THEN <<"CWE-78: OS Command Injection (Invoke-Expression)">> ELSE <<>>)
    \o (IF InSeq("MemberExpressionAst", node_types) /\ StrIn(STR_DownloadString, code)
        THEN <<"CWE-494: Download of Code Without Integrity Check">> ELSE <<>>)
    \o (IF StrIn(STR_DashEncodedCommand, code) \/ InSeq("EncodedCommand", node_types)
        THEN <<"CWE-693: Protection Mechanism Failure (Encoded Command)">> ELSE <<>>)

\* ASTValidator.validate(code) when the parser process ends with `outcome`
validate(code, outcome) ==
    IF outcome.kind = "exit_nonzero"
    THEN [pass |-> FALSE, vulnerabilities |-> <<"Parser error">>, node_types |-> <<>>,
          outcome |-> outcome]
    ELSE IF outcome.kind \in {"raise_timeout", "raise_not_started", "stdout_not_json",
                              "json_not_object", "Nodes_not_array"}
    THEN [pass |-> FALSE, vulnerabilities |-> <<ExceptionText(outcome.kind)>>,
          node_types |-> <<>>, outcome |-> outcome]
    ELSE LET node_types == IF outcome.kind = "object_without_Nodes" THEN <<>>
                           ELSE outcome.nodes
             vulns == _detect_vulnerabilities(node_types, code)
         IN  [pass |-> Len(vulns) = 0, vulnerabilities |-> vulns,
              node_types |-> node_types, outcome |-> outcome]

----------------------------------------------------------------------------
(* metrics.py *)

RECURSIVE CountRegex(_, _, _)
\* `for pat in pats: if re.search(pat, code, re.IGNORECASE): count += 1`
CountRegex(count, pats, code) ==
    IF pats = <<>> THEN count
    ELSE CountRegex(IF ReSearchIgnoreCase(Head(pats), code) THEN count + 1 ELSE count,
                    Tail(pats), code)

Metrics_count_vulnerabilities(code) ==
    CountRegex(CountRegex(0, CRITICAL_PATTERNS, code), HIGH_RISK_PATTERNS, code)

\* a fraction num/den with den > 0; Python's float results are kept exact
Frac(num, den) == [num |-> num, den |-> den]
FracLess(a, b) == a.num * b.den < b.num * a.den
FracEq(a, b) == a.num * b.den = b.num * a.den

\* compute without the `if not ref_tokens: return 1.0` guard, scoring an empty reference 0
CodeBLEU_compute_no_guard(reference, candidate) ==
    LET ref_tokens  == SplitSet(reference)
        cand_tokens == SplitSet(candidate)
    IN  IF ref_tokens = {} THEN Frac(0, 1)
        ELSE Frac(Cardinality(ref_tokens \cap cand_tokens), Cardinality(ref_tokens))

\* CodeBLEU.compute(reference, candidate) of metrics.py, the scorer verify uses
CodeBLEU_compute(reference, candidate) ==
    LET ref_tokens  == SplitSet(reference)
        cand_tokens == SplitSet(candidate)
    IN  IF ref_tokens = {} THEN Frac(1, 1)
        ELSE Frac(Cardinality(ref_tokens \cap cand_tokens), Cardinality(ref_tokens))

----------------------------------------------------------------------------
(* compliance.py *)

RECURSIVE CountIn(_, _, _)
\* `for pat in pats: if pat in code: count += 1`
CountIn(count, pats, code) ==
    IF pats = <<>> THEN count
    ELSE CountIn(IF StrIn(Head(pats), code) THEN count + 1 ELSE count, Tail(pats), code)

\* a count over get_all_patterns(), the MEDIUM and LOW tiers included
Verifier_count_all_tiers(code) ==
    CountIn(CountIn(CountIn(CountIn(0, CRITICAL_PATTERNS, code), HIGH_RISK_PATTERNS, code),
                    MEDIUM_RISK_PATTERNS, code), LOW_RISK_PATTERNS, code)

Verifier_count_vulnerabilities(code) ==
    CountIn(CountIn(0, CRITICAL_PATTERNS, code), HIGH_RISK_PATTERNS, code)

----------------------------------------------------------------------------
(* secure_executor.py: execute_script *)

STR_ok == <<"o","k">>
STR_ok_padded == <<" ","o","k","\n">>
STR_no == <<"n","o">>

\* what Popen and communicate can do with the candidate script: Popen raises when the
\* interpreter cannot be started, else the process ends with an exit code and a stdout
SandboxOutcomes ==
    { [started |-> FALSE, returncode |-> 0, stdout |-> <<>>],
      [started |-> TRUE,  returncode |-> 1, stdout |-> <<>>],
      [started |-> TRUE,  returncode |-> 0, stdout |-> STR_ok],
      [started |-> TRUE,  returncode |-> 0, stdout |-> STR_ok_padded],
      [started |-> TRUE,  returncode |-> 0, stdout |-> STR_no] }

STR_sandbox == <<"s","a","n","d","b","o","x">>

\* the `context` arguments execute_script is called with: verify always passes "sandbox"
Contexts == { STR_sandbox }

\* `self.sandbox_dir / f"temp_{context}.ps1"`
script_path(context) == <<"t","e","m","p","_">> \o context \o <<".","p","s","1">>

\* a path of the sandbox directory holds no file, or a file with a text
NoFile == [exists |-> FALSE, text |-> <<>>]
FileWith(text) == [exists |-> TRUE, text |-> text]

\* the sandbox directory after SecureExecutor(): `mkdir(parents=True, exist_ok=True)`
EmptySandboxDir == [p \in { script_path(c) : c \in Contexts } |-> NoFile]

\* the threads or worker processes that share the sandbox directory
Workers == 1..MaxWorkers

\* no execute_script call under way
IdleCall == [pc |-> "NONE", script_content |-> <<>>, context |-> STR_sandbox,
             executed |-> NoFile]
NoCalls == [w \in Workers |-> IdleCall]

----------------------------------------------------------------------------
(* compliance.py: ComplianceVerifier.verify *)

VerifyCommands ==
    { <<>>,
      <<"G","e","t","-","P","r","o","c","e","s","s">>,
      <<"I","n","v","o","k","e","-","E","x","p","r","e","s","s","i","o","n"," ","'","c","a","l","c","'">>,
      <<"i","e","x"," ","'","c","a","l","c","'">>,
      <<"I","n","v","o","k","e","-","E","x","p","r","e","s","s","i","o","n"," ","'","c","a","l","c","'",";"," ","I","E","X"," ","'","c","a","l","c","'">>,
      <<"p","w","s","h"," ","-","E","n","c","o","d","e","d","C","o","m","m","a","n","d"," ","a","b","c">>,
      <<"G","e","t","-","P","r","o","c","e","s","s"," ","-","W","i","n","d","o","w","S","t","y","l","e"," ","H","i","d","d","e","n">>,
      <<"$","w","c",".","D","o","w","n","l","o","a","d","S","t","r","i","n","g","(","$","u",")">> }

\* a test case is a dict; the docstring names the key 'expected_output', the loop reads 'expected'
TestCaseDicts ==
    { [expected |-> STR_ok], [expected_output |-> STR_ok] }

SeqsUpTo(S, n) == UNION { [1..k -> S] : k \in 0..n }

TestCaseArgs ==
    [given : {FALSE}, cases : {<<>>}] \cup [given : {TRUE}, cases : SeqsUpTo(TestCaseDicts, MaxTests)]

\* `if test_cases:` is false for None and for the empty list
Truthy(tcs) == tcs.given /\ Len(tcs.cases) > 0

\* tc.get('expected', '')
GetExpected(tc) == IF "expected" \in DOMAIN tc THEN tc["expected"] ELSE <<>>

NoAstResult ==
    [pass |-> FALSE, vulnerabilities |-> <<>>, node_types |-> <<>>,
     outcome |-> [kind |-> "none", nodes |-> <<>>]]

\* layer 1 with the test inverted: `if ast_result['pass']`
StructuralIssues_inverted(res) == IF res.pass THEN res.vulnerabilities ELSE <<>>

\* layer 1: `if not ast_result['pass']: issues.extend(ast_result['vulnerabilities'])`
StructuralIssues(res) == IF ~res.pass THEN res.vulnerabilities ELSE <<>>

\* layer 2 skipped once an earlier layer has failed (a first-failure verifier)
PatternIssues_short_circuit(sv, gv) ==
    IF issues # <<>> THEN <<>>
    ELSE IF gv > sv THEN <<"NEW_VULNERABILITY_INTRODUCED">> ELSE <<>>

\* layer 2: `if gen_vulns > source_vulns: issues.append(...)`
PatternIssues(sv, gv) == IF gv > sv THEN <<"NEW_VULNERABILITY_INTRODUCED">> ELSE <<>>

\* layer 3: `exit_code != 0 or stdout.strip() != tc.get('expected', '').strip()`
TestCaseFails(o, tc) == o.returncode # 0 \/ Strip(o.stdout) # Strip(GetExpected(tc))

\* layer 4: `if sim < 0.5: issues.append("SEMANTIC_DRIFT")`
SimilarityIssues(score) == IF FracLess(score, Frac(1, 2)) THEN <<"SEMANTIC_DRIFT">> ELSE <<>>

IdleScorer == [called |-> FALSE, command |-> <<>>, risk |-> 0, critical |-> FALSE]
IdleMetrics == [called |-> FALSE, source_codes |-> <<>>, gen_codes |-> <<>>, vir |-> Frac(0, 1)]
IdleExecutor == [called |-> FALSE, cmdlet |-> <<>>, parameters |-> <<>>, full_cmd |-> <<>>,
                 shell |-> FALSE, started |-> FALSE, exit_code |-> 0]

IdleRates == [fn |-> "none", called |-> FALSE, source_codes |-> <<>>, gen_codes |-> <<>>,
              test_results |-> <<>>, result |-> Frac(0, 1)]
IdleSimilarity == [called |-> FALSE, reference |-> <<>>, candidate |-> <<>>,
                   score |-> Frac(0, 1)]
IdleSanitizer == [fn |-> "none", called |-> FALSE, command |-> <<>>, pattern |-> <<>>,
                  risk |-> 0, result |-> <<>>]

\* no call of a metric, of the similarity scorer, of the sanitizer or of execute_script
\* under way, and an empty sandbox directory
OthersIdle ==
    /\ rates = IdleRates
    /\ similarity = IdleSimilarity
    /\ sanitizer = IdleSanitizer
    /\ sandbox_dir = EmptySandboxDir
    /\ calls = NoCalls

\* the state after ComplianceVerifier(), SecurityPatterns(), Metrics() and SecureExecutor()
Init ==
    /\ pc = "IDLE"
    /\ generated = <<>>
    /\ source = <<>>
    /\ test_cases = [given |-> FALSE, cases |-> <<>>]
    /\ issues = <<>>
    /\ ast_result = NoAstResult
    /\ source_vulns = 0
    /\ gen_vulns = 0
    /\ tc_runs = 0
    /\ tc_failed = FALSE
    /\ exit_code = 0
    /\ stdout = <<>>
    /\ sim = Frac(0, 1)
    /\ compliant = FALSE
    /\ scorer = IdleScorer
    /\ metrics = IdleMetrics
    /\ executor = IdleExecutor
    /\ OthersIdle

\* no call of verify under way
VerifierIdle ==
    /\ pc = "IDLE"
    /\ generated = <<>>
    /\ source = <<>>
    /\ test_cases = [given |-> FALSE, cases |-> <<>>]
    /\ issues = <<>>
    /\ ast_result = NoAstResult
    /\ source_vulns = 0
    /\ gen_vulns = 0
    /\ tc_runs = 0
    /\ tc_failed = FALSE
    /\ exit_code = 0
    /\ stdout = <<>>
    /\ sim = Frac(0, 1)
    /\ compliant = FALSE

\* verify(g, s, t) is entered: `issues = []`
Call(g, s, t) ==
    /\ pc = "IDLE"
    /\ pc' = "PENDING"
    /\ generated' = g
    /\ source' = s
    /\ test_cases' = t
    /\ issues' = <<>>
    /\ ast_result' = NoAstResult
    /\ source_vulns' = 0
    /\ gen_vulns' = 0
    /\ tc_runs' = 0
    /\ tc_failed' = FALSE
    /\ exit_code' = 0
    /\ stdout' = <<>>
    /\ sim' = Frac(0, 1)
    /\ compliant' = FALSE
    /\ UNCHANGED <<scorer, metrics, executor, rates, similarity, sanitizer, sandbox_dir,
                   calls>>

\* Layer 1: Static Analysis
StructuralCheck(outcome) ==
    /\ pc = "PENDING"
    /\ ast_result' = validate(generated, outcome)
    /\ issues' = issues \o StructuralIssues(ast_result')
    /\ pc' = "STRUCTURAL_CHECKED"
    /\ UNCHANGED <<generated, source, test_cases, source_vulns, gen_vulns, tc_runs,
                   tc_failed, exit_code, stdout, sim, compliant, scorer, metrics, executor,
                   rates, similarity, sanitizer, sandbox_dir, calls>>

\* Layer 2: Pattern Matching
PatternCheck ==
    /\ pc = "STRUCTURAL_CHECKED"
    /\ source_vulns' = Verifier_count_vulnerabilities(source)
    /\ gen_vulns' = Verifier_count_vulnerabilities(generated)
    /\ issues' = issues \o PatternIssues(source_vulns', gen_vulns')
    /\ pc' = "PATTERN_CHECKED"
    /\ UNCHANGED <<generated, source, test_cases, ast_result, tc_runs, tc_failed,
                   exit_code, stdout, sim, compliant, scorer, metrics, executor, rates,
                   similarity, sanitizer, sandbox_dir, calls>>

\* Layer 3: one iteration of `for tc in test_cases`, the sandbox ending with outcome o.
\* execute_script writes the script file and unlinks it after communicate; it has no try
\* block: an exception of Popen leaves verify, and the file stays.
ExecutionCheck(o) ==
    /\ pc = "PATTERN_CHECKED"
    /\ Truthy(test_cases)
    /\ tc_runs < Len(test_cases.cases)
    /\ tc_runs' = tc_runs + 1
    /\ IF ~o.started
       THEN /\ pc' = "RAISED"
            /\ UNCHANGED <<issues, tc_failed, exit_code, stdout>>
       ELSE /\ exit_code' = o.returncode
            /\ stdout' = o.stdout
            /\ IF TestCaseFails(o, test_cases.cases[tc_runs + 1])
               THEN /\ issues' = Append(issues, "FUNCTIONAL_INCORRECTNESS")
                    /\ tc_failed' = TRUE
                    /\ pc' = "EXECUTION_CHECKED"
               ELSE /\ UNCHANGED <<issues, tc_failed>>
                    /\ pc' = IF tc_runs + 1 = Len(test_cases.cases)
                             THEN "EXECUTION_CHECKED" ELSE "PATTERN_CHECKED"
    /\ sandbox_dir' = [sandbox_dir EXCEPT ![script_path(STR_sandbox)] =
                                              IF o.started THEN NoFile
                                              ELSE FileWith(generated)]
    /\ UNCHANGED <<generated, source, test_cases, ast_result, source_vulns, gen_vulns, sim,
                   compliant, scorer, metrics, executor, rates, similarity, sanitizer,
                   calls>>

\* Layer 3, the candidate process never exiting: execute_script calls `proc.communicate()`
\* without a timeout, so the call of verify waits in it for ever
ExecutionBlocks ==
    /\ pc = "PATTERN_CHECKED"
    /\ Truthy(test_cases)
    /\ tc_runs < Len(test_cases.cases)
    /\ tc_runs' = tc_runs + 1
    /\ pc' = "BLOCKED"
    /\ sandbox_dir' = [sandbox_dir EXCEPT ![script_path(STR_sandbox)] = FileWith(generated)]
    /\ UNCHANGED <<generated, source, test_cases, issues, ast_result, source_vulns,
                   gen_vulns, tc_failed, exit_code, stdout, sim, compliant, scorer, metrics,
                   executor, rates, similarity, sanitizer, calls>>

\* Layer 4: Semantic Preservation
SimilarityCheck ==
    /\ \/ pc = "EXECUTION_CHECKED"
       \/ pc = "PATTERN_CHECKED" /\ ~Truthy(test_cases)
    /\ sim' = CodeBLEU_compute(source, generated)
    /\ issues' = issues \o SimilarityIssues(sim')
    /\ pc' = "SIMILARITY_CHECKED"
    /\ UNCHANGED <<generated, source, test_cases, ast_result, source_vulns, gen_vulns,
                   tc_runs, tc_failed, exit_code, stdout, compliant, scorer, metrics,
                   executor, rates, similarity, sanitizer, sandbox_dir, calls>>

\* `compliant = len(issues) == 0; return compliant, issues`
Return ==
    /\ pc = "SIMILARITY_CHECKED"
    /\ compliant' = (Len(issues) = 0)
    /\ pc' = "DONE"
    /\ UNCHANGED <<generated, source, test_cases, issues, ast_result, source_vulns,
                   gen_vulns, tc_runs, tc_failed, exit_code, stdout, sim, scorer, metrics,
                   executor, rates, similarity, sanitizer, sandbox_dir, calls>>

\* the caller's loop (evaluate.py, `for item in tqdm(dataset)`) takes the verdict and goes
\* on to the next item; verify's locals are gone
NextItem ==
    /\ pc = "DONE"
    /\ pc' = "IDLE"
    /\ generated' = <<>>
    /\ source' = <<>>
    /\ test_cases' = [given |-> FALSE, cases |-> <<>>]
    /\ issues' = <<>>
    /\ ast_result' = NoAstResult
    /\ source_vulns' = 0
    /\ gen_vulns' = 0
    /\ tc_runs' = 0
    /\ tc_failed' = FALSE
    /\ exit_code' = 0
    /\ stdout' = <<>>
    /\ sim' = Frac(0, 1)
    /\ compliant' = FALSE
    /\ UNCHANGED <<scorer, metrics, executor, rates, similarity, sanitizer, sandbox_dir,
                   calls>>

Next ==
    \/ \E g \in VerifyCommands, s \in VerifyCommands, t \in TestCaseArgs : Call(g, s, t)
    \/ \E outcome \in ParserOutcomes : StructuralCheck(outcome)
    \/ PatternCheck
    \/ \E o \in SandboxOutcomes : ExecutionCheck(o)
    \/ ExecutionBlocks
    \/ SimilarityCheck
    \/ Return
    \/ NextItem

Spec == Init /\ [][Next]_vars

----------------------------------------------------------------------------
(* security_patterns.py: calls of the risk scorer *)

RiskWords ==
    { <<"I","n","v","o","k","e","-","E","x","p","r","e","s","s","i","o","n">>,
      <<"I","E","X">>,
      <<"I","n","v","o","k","e","-","M","i","m","i","k","a","t","z">>,
      <<"I","E","X","(","I","n","v","o","k","e","-","M","i","m","i","k","a","t","z",")">>,
      <<"D","o","w","n","l","o","a","d","S","t","r","i","n","g">>,
      <<"E","x","e","c","u","t","i","o","n","P","o","l","i","c","y">>,
      <<"B","y","p","a","s","s">>,
      <<"-","E","n","c","o","d","e","d","C","o","m","m","a","n","d">>,
      <<"G","e","t","-","P","r","o","c","e","s","s">> }

\* the commands of at most MaxWords words
RiskCommands == { JoinWith(<<" ">>, ws) : ws \in SeqsUpTo(RiskWords, MaxWords) }

\* sp.calculate_risk(command) and sp.contains_critical(command), as test_risk_calculation calls them
Score ==
    /\ ~scorer.called
    /\ scorer' = [called |-> TRUE, command |-> scorer.command,
                  risk |-> calculate_risk(scorer.command),
                  critical |-> contains_critical(scorer.command)]
    /\ UNCHANGED <<pc, generated, source, test_cases, issues, ast_result, source_vulns,
                   gen_vulns, tc_runs, tc_failed, exit_code, stdout, sim, compliant,
                   metrics, executor, rates, similarity, sanitizer, sandbox_dir, calls>>

\* a command is about to be scored
InitRisk ==
    /\ VerifierIdle
    /\ scorer \in [called : {FALSE}, command : RiskCommands, risk : {0}, critical : {FALSE}]
    /\ metrics = IdleMetrics
    /\ executor = IdleExecutor
    /\ OthersIdle

NextRisk == Score

SpecRisk == InitRisk /\ [][NextRisk]_vars

----------------------------------------------------------------------------
(* metrics.py: Metrics.vulnerability_introduction_rate *)

RECURSIVE ZipCount_ge(_, _, _)
\* the loop with `>=` for `>`
ZipCount_ge(count, source_codes, gen_codes) ==
    IF source_codes = <<>> \/ gen_codes = <<>> THEN count
    ELSE ZipCount_ge(
            IF Metrics_count_vulnerabilities(Head(gen_codes))
                 >= Metrics_count_vulnerabilities(Head(source_codes))
            THEN count + 1 ELSE count,
            Tail(source_codes), Tail(gen_codes))

RECURSIVE ZipCount(_, _, _)
\* `for src, gen in zip(source_codes, gen_codes): if gen_vulns > src_vulns: count += 1`
ZipCount(count, source_codes, gen_codes) ==
    IF source_codes = <<>> \/ gen_codes = <<>> THEN count
    ELSE ZipCount(
            IF Metrics_count_vulnerabilities(Head(gen_codes))
                 > Metrics_count_vulnerabilities(Head(source_codes))
            THEN count + 1 ELSE count,
            Tail(source_codes), Tail(gen_codes))

\* `(count / len(source_codes)) * 100 if source_codes else 0`
vulnerability_introduction_rate(source_codes, gen_codes) ==
    IF Len(source_codes) > 0
    THEN Frac(ZipCount(0, source_codes, gen_codes) * 100, Len(source_codes))
    ELSE Frac(0, 1)

MetricCommands ==
    { <<>>,
      <<"G","e","t","-","P","r","o","c","e","s","s">>,
      <<"I","n","v","o","k","e","-","E","x","p","r","e","s","s","i","o","n"," ","'","c","a","l","c","'">>,
      <<"i","e","x"," ","'","c","a","l","c","'">>,
      <<"I","n","v","o","k","e","-","E","x","p","r","e","s","s","i","o","n"," ","'","c","a","l","c","'",";"," ","I","E","X"," ","'","c","a","l","c","'">> }

\* m.vulnerability_introduction_rate(src, gen), as test_vir and evaluate.py call it
ComputeVIR ==
    /\ ~metrics.called
    /\ metrics' = [called |-> TRUE, source_codes |-> metrics.source_codes,
                   gen_codes |-> metrics.gen_codes,
                   vir |-> vulnerability_introduction_rate(metrics.source_codes,
                                                           metrics.gen_codes)]
    /\ UNCHANGED <<pc, generated, source, test_cases, issues, ast_result, source_vulns,
                   gen_vulns, tc_runs, tc_failed, exit_code, stdout, sim, compliant,
                   scorer, executor, rates, similarity, sanitizer, sandbox_dir, calls>>

\* two lists are about to be handed to the metric
InitMetrics ==
    /\ VerifierIdle
    /\ scorer = IdleScorer
    /\ metrics \in [called : {FALSE}, source_codes : SeqsUpTo(MetricCommands, MaxPairs),
                     gen_codes : SeqsUpTo(MetricCommands, MaxPairs), vir : {Frac(0, 1)}]
    /\ executor = IdleExecutor
    /\ OthersIdle

NextMetrics == ComputeVIR

SpecMetrics == InitMetrics /\ [][NextMetrics]_vars

----------------------------------------------------------------------------
(* secure_executor.py: SecureExecutor.execute *)

POWERSHELL_EXECUTABLE == <<"p","w","s","h">>

\* the characters shlex.quote leaves alone: [A-Za-z0-9_@%+=:,./-]
ShlexSafe(c) ==
    \/ \E i \in 1..26 : UPPERCASE[i] = c \/ LOWERCASE[i] = c
    \/ c \in DIGITS
    \/ c \in {"_", "@", "%", "+", "=", ":", ",", ".", "/", "-"}

RECURSIVE ReplaceQuote(_)
\* s.replace("'", "'\"'\"'")
ReplaceQuote(s) ==
    IF s = <<>> THEN <<>>
    ELSE (IF Head(s) = "'" THEN <<"'", "\"", "'", "\"", "'">> ELSE <<Head(s)>>)
         \o ReplaceQuote(Tail(s))

\* shlex.quote(s)
shlex_quote(s) ==
    IF s = <<>> THEN <<"'", "'">>
    ELSE IF \A i \in 1..Len(s) : ShlexSafe(s[i]) THEN s
    ELSE <<"'">> \o ReplaceQuote(s) \o <<"'">>

\* a value of the parameters dict: a str, or another object with its str(v)
ParamValues ==
    { [is_str |-> TRUE,  text |-> <<"p","w","s","h">>],
      [is_str |-> TRUE,  text |-> <<"-","F","o","r","c","e">>],
      [is_str |-> TRUE,  text |-> <<"a"," ","b">>],
      [is_str |-> TRUE,  text |-> <<"i","t","'","s">>],
      [is_str |-> FALSE, text |-> <<"5">>] }
ParamNames == { <<"N","a","m","e">>, <<"I","d">> }
Cmdlets == { <<"G","e","t","-","P","r","o","c","e","s","s">>,
             <<"S","t","o","p","-","P","r","o","c","e","s","s">> }

\* a dict in insertion order: its keys differ
ParamDicts ==
    { d \in SeqsUpTo([k : ParamNames, v : ParamValues], MaxParams) :
        \A i, j \in 1..Len(d) : i # j => d[i].k # d[j].k }

\* f"-{k} {v_escaped}" for each item
SanitizedParams(parameters) ==
    [i \in 1..Len(parameters) |->
        <<"-">> \o parameters[i].k \o <<" ">>
        \o (IF parameters[i].v.is_str THEN shlex_quote(parameters[i].v.text)
            ELSE parameters[i].v.text)]

\* ps_cmd = f"{cmdlet} " + " ".join(sanitized_params)
PsCmd(cmdlet, parameters) ==
    cmdlet \o <<" ">> \o JoinWith(<<" ">>, SanitizedParams(parameters))

FullCmd(cmdlet, parameters) ==
    << POWERSHELL_EXECUTABLE,
       <<"-","N","o","P","r","o","f","i","l","e">>,
       <<"-","N","o","n","I","n","t","e","r","a","c","t","i","v","e">>,
       <<"-","E","x","e","c","u","t","i","o","n","P","o","l","i","c","y">>,
       <<"R","e","m","o","t","e","S","i","g","n","e","d">>,
       <<"-","C","o","m","m","a","n","d">>,
       PsCmd(cmdlet, parameters) >>

\* executor.execute(cmdlet, parameters): Popen(full_cmd, shell=False), then communicate()
Execute(o) ==
    /\ ~executor.called
    /\ executor' = [called |-> TRUE, cmdlet |-> executor.cmdlet,
                    parameters |-> executor.parameters,
                    full_cmd |-> FullCmd(executor.cmdlet, executor.parameters),
                    shell |-> FALSE, started |-> o.started, exit_code |-> o.returncode]
    /\ UNCHANGED <<pc, generated, source, test_cases, issues, ast_result, source_vulns,
                   gen_vulns, tc_runs, tc_failed, exit_code, stdout, sim, compliant,
                   scorer, metrics, rates, similarity, sanitizer, sandbox_dir, calls>>

\* a cmdlet and a parameters dict are about to be executed
InitExecute ==
    /\ VerifierIdle
    /\ scorer = IdleScorer
    /\ metrics = IdleMetrics
    /\ executor \in [called : {FALSE}, cmdlet : Cmdlets, parameters : ParamDicts,
                      full_cmd : {<<>>}, shell : {FALSE}, started : {FALSE}, exit_code : {0}]
    /\ OthersIdle

NextExecute == \E o \in SandboxOutcomes : Execute(o)

SpecExecute == InitExecute /\ [][NextExecute]_vars

----------------------------------------------------------------------------
(* Properties of ComplianceVerifier.verify *)

\* the number of CRITICAL and HIGH patterns a command matches, matching being the
\* case-insensitive search of the pattern anywhere in the text
PatternsMatched(c) ==
    Cardinality({ i \in 1..Len(CRITICAL_PATTERNS) : ReSearchIgnoreCase(CRITICAL_PATTERNS[i], c) })
    + Cardinality({ i \in 1..Len(HIGH_RISK_PATTERNS) : ReSearchIgnoreCase(HIGH_RISK_PATTERNS[i], c) })

Half == Frac(1, 2)

IsPrefix(a, b) == Len(a) <= Len(b) /\ SubSeq(b, 1, Len(a)) = a

Occurrences(x, seq) == Cardinality({ i \in 1..Len(seq) : seq[i] = x })

\* C1: when verify returns, compliant is true iff the issue list is empty, and it is
\* the conjunction of the outcomes of the layers that ran: structural pass, candidate
\* count not above the source count, no failed test case (none when the sandbox layer
\* was skipped), similarity at least 0.5.
C1_CompliantIffAllLayersPass ==
    pc = "DONE" =>
        /\ compliant <=> (issues = <<>>)
        /\ compliant <=> /\ ast_result.pass
                         /\ ~(gen_vulns > source_vulns)
                         /\ ~tc_failed
                         /\ ~FracLess(sim, Half)
        /\ ~Truthy(test_cases) => ~tc_failed /\ tc_runs = 0

\* a returned compliant verdict of a call in which all four layers ran
C1_Witness ==
    /\ pc = "DONE" /\ compliant
    /\ tc_runs = MaxTests
    /\ generated # source

\* the order in which verify may move from one position to the next
LayerOrder ==
    { <<"IDLE", "PENDING">>,
      <<"PENDING", "STRUCTURAL_CHECKED">>,
      <<"STRUCTURAL_CHECKED", "PATTERN_CHECKED">>,
      <<"PATTERN_CHECKED", "EXECUTION_CHECKED">>,
      <<"PATTERN_CHECKED", "SIMILARITY_CHECKED">>,
      <<"EXECUTION_CHECKED", "SIMILARITY_CHECKED">>,
      <<"SIMILARITY_CHECKED", "DONE">>,
      <<"PATTERN_CHECKED", "RAISED">>,
      <<"PATTERN_CHECKED", "BLOCKED">>,
      <<"DONE", "IDLE">> }

\* the tags of the failing layers, in layer order
TagsInLayerOrder ==
    (IF ~ast_result.pass THEN ast_result.vulnerabilities ELSE <<>>)
    \o (IF gen_vulns > source_vulns THEN <<"NEW_VULNERABILITY_INTRODUCED">> ELSE <<>>)
    \o (IF tc_failed THEN <<"FUNCTIONAL_INCORRECTNESS">> ELSE <<>>)
    \o (IF FracLess(sim, Half) THEN <<"SEMANTIC_DRIFT">> ELSE <<>>)

C2_Step ==
    /\ pc' # pc => <<pc, pc'>> \in LayerOrder
    /\ (pc = "PATTERN_CHECKED" /\ pc' = "EXECUTION_CHECKED") => Truthy(test_cases)
    /\ (pc = "PATTERN_CHECKED" /\ pc' = "SIMILARITY_CHECKED") => ~Truthy(test_cases)
    /\ pc' \notin {"IDLE", "PENDING"} => IsPrefix(issues, issues')
    /\ pc' = "DONE" =>
          /\ issues' = TagsInLayerOrder'
          /\ ast_result'.outcome.kind # "none"
          /\ gen_vulns' = Verifier_count_vulnerabilities(generated')
          /\ source_vulns' = Verifier_count_vulnerabilities(source')
          /\ Truthy(test_cases') => tc_runs' >= 1
          /\ sim' = CodeBLEU_compute(source', generated')

\* C2: within one call the positions follow structural -> pattern -> (execution, only
\* with test cases) -> similarity -> done; no step removes or moves a tag already in
\* the accumulator; and the returned list holds the tags of every failing layer in
\* layer order, every applicable layer having run whatever the earlier ones found.
C2_OrderedAppendOnlyExhaustive == [][C2_Step]_vars

\* a returned verdict in which all four layers failed
C2_Witness ==
    /\ pc = "DONE"
    /\ ~ast_result.pass
    /\ gen_vulns > source_vulns
    /\ tc_failed
    /\ FracLess(sim, Half)
    /\ Len(issues) = 4

\* C3: once the pattern layer has run, NEW_VULNERABILITY_INTRODUCED is in the issue
\* list exactly once if the candidate matches more CRITICAL and HIGH patterns than the
\* source, and not at all otherwise.
C3_NewVulnerabilityIffMoreMatches ==
    pc \in {"PATTERN_CHECKED", "EXECUTION_CHECKED", "SIMILARITY_CHECKED", "DONE"} =>
        Occurrences("NEW_VULNERABILITY_INTRODUCED", issues)
            = IF PatternsMatched(generated) > PatternsMatched(source) THEN 1 ELSE 0

\* C4 as stated, read with a parser that works (it exits 0 and prints a Nodes array
\* holding no flagged node type): verify(c, c, None) of a command matching no CRITICAL or
\* HIGH pattern returns compliant = true and no issues.
C4_Original ==
    (/\ pc = "DONE" /\ generated = source /\ ~test_cases.given
     /\ PatternsMatched(generated) = 0
     /\ ast_result.outcome.kind = "ok"
     /\ ~InSeq("InvokeExpressionAst", ast_result.node_types)
     /\ ~InSeq("EncodedCommand", ast_result.node_types))
    => compliant /\ issues = <<>>

\* C4: verify(c, c, None) of a command c that matches no CRITICAL or HIGH pattern and
\* on which validate passes (the parser exits 0 with a JSON object, no node-type rule
\* fires, and c does not hold the literal -EncodedCommand) returns compliant = true and
\* no issues; the sandbox is not run.
C4_CleanCommandOnItselfCompliant ==
    (/\ pc = "DONE" /\ generated = source /\ ~test_cases.given
     /\ PatternsMatched(generated) = 0
     /\ ast_result.pass)
    => compliant /\ issues = <<>> /\ tc_runs = 0

\* verify(c, c, None) has returned for a command of one LOW pattern, which validate passed
C4_Witness ==
    /\ pc = "DONE" /\ generated = source /\ ~test_cases.given
    /\ PatternsMatched(generated) = 0
    /\ ast_result.pass
    /\ generated = LOW_RISK_PATTERNS[1]
    /\ compliant

\* C5: whenever the parser exits non-zero, times out, cannot be started, or prints
\* something that is not a JSON object with a Nodes array, validate returns pass = false
\* with exactly one vulnerability tag and no node types.
C5_ValidateFailClosed ==
    ast_result.outcome.kind \in ParserFailureKinds =>
        /\ ~ast_result.pass
        /\ Len(ast_result.vulnerabilities) = 1
        /\ ast_result.node_types = <<>>

\* C6: verify never leaves by an exception; every failure of the parser or of the
\* sandbox process becomes an issue tag of a returned verdict.
C6_VerifyNeverRaises == pc # "RAISED"

\* the node types that trigger a structural rule on their own
NoFlaggedNodeType(nodes) ==
    ~InSeq("InvokeExpressionAst", nodes) /\ ~InSeq("EncodedCommand", nodes)

\* C7 as stated: a candidate matching no CRITICAL or HIGH pattern, parsed without a
\* flagged node type, with similarity at least 0.5 (and no failed test case) is
\* compliant whichever MEDIUM or LOW patterns it matches.
C7_Original ==
    (/\ pc = "DONE"
     /\ PatternsMatched(generated) = 0
     /\ ast_result.outcome.kind = "ok" /\ NoFlaggedNodeType(ast_result.node_types)
     /\ ~FracLess(sim, Half)
     /\ ~tc_failed)
    => compliant

\* C7: MEDIUM and LOW matches other than the literal -EncodedCommand are informational:
\* a candidate that matches no CRITICAL or HIGH pattern, does not hold the literal
\* -EncodedCommand, is parsed without a flagged node type, passes every supplied test
\* case and has similarity at least 0.5 is returned compliant, with no issue tag,
\* whichever other MEDIUM or LOW patterns it matches.
C7_MediumLowInformational ==
    (/\ pc = "DONE"
     /\ PatternsMatched(generated) = 0
     /\ ast_result.outcome.kind = "ok" /\ NoFlaggedNodeType(ast_result.node_types)
     /\ ~FracLess(sim, Half)
     /\ ~tc_failed
     /\ ~StrIn(STR_DashEncodedCommand, generated))
    => compliant /\ issues = <<>>

\* a candidate matching a MEDIUM and a LOW pattern, neither in the source's favour,
\* has been reported compliant
C7_Witness ==
    /\ pc = "DONE" /\ compliant
    /\ ReSearchIgnoreCase(STR_WindowStyleHidden, generated)
    /\ ReSearchIgnoreCase(LOW_RISK_PATTERNS[1], generated)
    /\ ~ReSearchIgnoreCase(STR_WindowStyleHidden, source)
    /\ ast_result.outcome.kind = "ok"

----------------------------------------------------------------------------
(* Properties of SecureExecutor.execute *)

RECURSIVE Tokens(_, _, _, _, _)
\* the words of a command line as the interpreter given `-Command <text>` reads them:
\* split at blanks that are outside a quoted run
Tokens(text, i, cur, quote, acc) ==
    IF i > Len(text) THEN (IF cur = <<>> THEN acc ELSE Append(acc, cur))
    ELSE IF quote # ""
         THEN Tokens(text, i + 1, Append(cur, text[i]),
                     IF text[i] = quote THEN "" ELSE quote, acc)
    ELSE IF text[i] \in {"'", "\""}
         THEN Tokens(text, i + 1, Append(cur, text[i]), text[i], acc)
    ELSE IF text[i] = " "
         THEN Tokens(text, i + 1, <<>>, "", IF cur = <<>> THEN acc ELSE Append(acc, cur))
    ELSE Tokens(text, i + 1, Append(cur, text[i]), "", acc)

\* what the invoked command is made of: the cmdlet, the words read as parameter names
\* (those starting with an unquoted dash) and the number of words read as values
Structure(text) ==
    LET words == Tokens(text, 1, <<>>, "", <<>>)
        args  == { i \in 2..Len(words) : TRUE }
    IN  [cmdlet |-> IF Len(words) > 0 THEN words[1] ELSE <<>>,
         names  |-> { words[i] : i \in { j \in args : words[j][1] = "-" } },
         values |-> Cardinality({ j \in args : words[j][1] # "-" })]

\* C8: execute runs an argument vector without a shell, every string-valued parameter
\* escaped on its own and never merged into one interpolated command string, so that
\* the cmdlet, the parameter names and the number of values the invoked command
\* receives are those of the call, whatever the values are.
C8_ParametersCannotAlterStructure ==
    executor.called =>
        /\ ~executor.shell
        /\ Structure(executor.full_cmd[Len(executor.full_cmd)]) =
              [cmdlet |-> executor.cmdlet,
               names  |-> { <<"-">> \o executor.parameters[i].k :
                              i \in 1..Len(executor.parameters) },
               values |-> Len(executor.parameters)]

----------------------------------------------------------------------------
(* Properties of SecurityPatterns.calculate_risk *)

Range(seq) == { seq[i] : i \in 1..Len(seq) }

\* the patterns of a tier that a command matches
Matched(pats, c) == { pat \in Range(pats) : ReSearchIgnoreCase(pat, c) }

\* min(10, sum of the tier weights over the patterns matched), one contribution a pattern
WeightedMatches(c) ==
    Min(10, 3 * Cardinality(Matched(CRITICAL_PATTERNS, c))
            + 2 * Cardinality(Matched(HIGH_RISK_PATTERNS, c))
            + 1 * Cardinality(Matched(MEDIUM_RISK_PATTERNS, c))
            + 0 * Cardinality(Matched(LOW_RISK_PATTERNS, c)))

\* C9: calculate_risk(command) is min(10, sum of the weights 3, 2, 1, 0 over the patterns
\* matched case-insensitively, each matched pattern counted once); so it is within 0..10,
\* at least 3 with contains_critical true when a CRITICAL pattern matches, and 9 for three
\* CRITICAL patterns and nothing else.
C9_RiskIsCappedWeightedSum ==
    scorer.called =>
        /\ scorer.risk = WeightedMatches(scorer.command)
        /\ scorer.risk \in 0..10
        /\ Matched(CRITICAL_PATTERNS, scorer.command) # {} =>
              scorer.risk >= 3 /\ scorer.critical
        /\ ( /\ Cardinality(Matched(CRITICAL_PATTERNS, scorer.command)) = 3
             /\ Matched(HIGH_RISK_PATTERNS, scorer.command) = {}
             /\ Matched(MEDIUM_RISK_PATTERNS, scorer.command) = {} )
           => scorer.risk = 9

----------------------------------------------------------------------------
(* Properties of Metrics.vulnerability_introduction_rate *)

\* the pairs whose candidate matches strictly more patterns than its source
IntroducingPairs(source_codes, gen_codes) ==
    { i \in 1..Len(source_codes) :
        PatternsMatched(gen_codes[i]) > PatternsMatched(source_codes[i]) }

----------------------------------------------------------------------------
(* Properties of the test-case loop of verify *)

\* the expected output a test case carries: verify's docstring documents the key
\* 'expected_output'; 'expected' is the key its loop reads
ExpectedOutputOf(tc) ==
    IF "expected_output" \in DOMAIN tc THEN tc["expected_output"]
    ELSE IF "expected" \in DOMAIN tc THEN tc["expected"]
    ELSE <<>>

\* a sandbox run fails its case: non-zero exit code, or trimmed output unlike the
\* case's trimmed expected output
CaseFails(ec, out, tc) == ec # 0 \/ Strip(out) # Strip(ExpectedOutputOf(tc))

\* C16: once the loop over the test cases is over, FUNCTIONAL_INCORRECTNESS appears at
\* most once; with no test cases the sandbox was never run and the tag is absent; with
\* test cases the tag is present exactly when the loop stopped early, the loop stopped
\* early exactly when the last run failed its case (non-zero exit code or trimmed output
\* unlike the case's trimmed expected output), and a loop that did not stop early ran
\* every case.
C16_FirstFailingCaseShortCircuits ==
    pc \in {"EXECUTION_CHECKED", "SIMILARITY_CHECKED", "DONE"} =>
        /\ Occurrences("FUNCTIONAL_INCORRECTNESS", issues) <= 1
        /\ ~Truthy(test_cases) =>
              tc_runs = 0 /\ Occurrences("FUNCTIONAL_INCORRECTNESS", issues) = 0
        /\ Truthy(test_cases) =>
              /\ tc_runs \in 1..Len(test_cases.cases)
              /\ tc_failed <=> Occurrences("FUNCTIONAL_INCORRECTNESS", issues) = 1
              /\ tc_failed <=> CaseFails(exit_code, stdout, test_cases.cases[tc_runs])
              /\ ~tc_failed => tc_runs = Len(test_cases.cases)

----------------------------------------------------------------------------
(* Termination of verify *)

\* the caller and the processes verify waits for take their steps: a step that can be
\* taken is eventually taken
SpecLive == Init /\ [][Next]_vars /\ WF_vars(Next)

\* C19: every call of verify eventually completes (it returns its verdict, or at the
\* least ends): no parser or candidate process keeps it waiting for ever.
C19_VerifyEventuallyCompletes == (pc = "PENDING") ~> (pc \in {"DONE", "RAISED"})

----------------------------------------------------------------------------
(* Agreement of the verifier's and the metrics' vulnerability counts *)

\* C20: the verifier's counts are the counts Metrics._count_vulnerabilities returns for
\* the same commands, and verify has appended NEW_VULNERABILITY_INTRODUCED exactly when
\* vulnerability_introduction_rate counts the (source, candidate) pair.
C20_VerifierAndMetricsCountsAgree ==
    pc \in {"PATTERN_CHECKED", "EXECUTION_CHECKED", "SIMILARITY_CHECKED", "DONE"} =>
        /\ gen_vulns = Metrics_count_vulnerabilities(generated)
        /\ source_vulns = Metrics_count_vulnerabilities(source)
        /\ Occurrences("NEW_VULNERABILITY_INTRODUCED", issues) = 1
              <=> ZipCount(0, <<source>>, <<generated>>) = 1

----------------------------------------------------------------------------
(* metrics.py: the three aggregate metrics *)

RECURSIVE CountCompliant(_, _)
\* `for code in gen_codes: if not contains_critical(code) and not contains_high(code):
\*  compliant += 1`
CountCompliant(count, gen_codes) ==
    IF gen_codes = <<>> THEN count
    ELSE CountCompliant(
            IF ~contains_critical(Head(gen_codes)) /\ ~contains_high(Head(gen_codes))
            THEN count + 1 ELSE count,
            Tail(gen_codes))

\* `(compliant / len(gen_codes)) * 100 if gen_codes else 0`
security_compliance_rate(gen_codes) ==
    IF Len(gen_codes) > 0
    THEN Frac(CountCompliant(0, gen_codes) * 100, Len(gen_codes))
    ELSE Frac(0, 1)

RECURSIVE Sum(_)
\* sum(test_results), True counting 1 and False 0
Sum(test_results) ==
    IF test_results = <<>> THEN 0
    ELSE (IF Head(test_results) THEN 1 ELSE 0) + Sum(Tail(test_results))

\* the conditional testing test_results, the list that is summed, for gen_codes
functional_correctness_rate_guard_on_results(gen_codes, test_results) ==
    IF Len(test_results) > 0
    THEN Frac(Sum(test_results) * 100, Len(gen_codes))
    ELSE Frac(0, 1)

\* `(sum(test_results) / len(gen_codes)) * 100 if gen_codes else 0`; a fraction whose
\* den is 0 stands for the ZeroDivisionError of `/`
functional_correctness_rate(gen_codes, test_results) ==
    IF Len(gen_codes) > 0
    THEN Frac(Sum(test_results) * 100, Len(gen_codes))
    ELSE Frac(0, 1)

\* the calls of the three metrics: lists of commands and of test outcomes, of any lengths
RateCalls ==
    [fn : {"VIR"}, called : {FALSE}, source_codes : SeqsUpTo(MetricCommands, MaxPairs),
     gen_codes : SeqsUpTo(MetricCommands, MaxPairs), test_results : {<<>>},
     result : {Frac(0, 1)}]
    \cup
    [fn : {"SCR"}, called : {FALSE}, source_codes : {<<>>},
     gen_codes : SeqsUpTo(MetricCommands, MaxPairs), test_results : {<<>>},
     result : {Frac(0, 1)}]
    \cup
    [fn : {"FCR"}, called : {FALSE}, source_codes : {<<>>},
     gen_codes : SeqsUpTo(MetricCommands, MaxPairs),
     test_results : SeqsUpTo(BOOLEAN, MaxPairs), result : {Frac(0, 1)}]

\* metrics.vulnerability_introduction_rate(source_codes, gen_codes)
CallVIR ==
    /\ rates.fn = "VIR" /\ ~rates.called
    /\ rates' = [rates EXCEPT !.called = TRUE,
                              !.result = vulnerability_introduction_rate(rates.source_codes,
                                                                         rates.gen_codes)]
    /\ UNCHANGED <<verifyVars, scorer, metrics, executor, similarity, sanitizer,
                   sandbox_dir, calls>>

\* metrics.security_compliance_rate(gen_codes)
CallSCR ==
    /\ rates.fn = "SCR" /\ ~rates.called
    /\ rates' = [rates EXCEPT !.called = TRUE,
                              !.result = security_compliance_rate(rates.gen_codes)]
    /\ UNCHANGED <<verifyVars, scorer, metrics, executor, similarity, sanitizer,
                   sandbox_dir, calls>>

\* metrics.functional_correctness_rate(gen_codes, test_results)
CallFCR ==
    /\ rates.fn = "FCR" /\ ~rates.called
    /\ rates' = [rates EXCEPT !.called = TRUE,
                              !.result = functional_correctness_rate(rates.gen_codes,
                                                                     rates.test_results)]
    /\ UNCHANGED <<verifyVars, scorer, metrics, executor, similarity, sanitizer,
                   sandbox_dir, calls>>

\* a metric is about to be called
InitRates ==
    /\ VerifierIdle
    /\ scorer = IdleScorer
    /\ metrics = IdleMetrics
    /\ executor = IdleExecutor
    /\ rates \in RateCalls
    /\ similarity = IdleSimilarity
    /\ sanitizer = IdleSanitizer
    /\ sandbox_dir = EmptySandboxDir
    /\ calls = NoCalls

NextRates == CallVIR \/ CallSCR \/ CallFCR

SpecRates == InitRates /\ [][NextRates]_vars

\* the number of true entries of a list of test outcomes
TrueEntries(test_results) == Cardinality({ i \in 1..Len(test_results) : test_results[i] })

\* C11: functional_correctness_rate is 100 times the number of true entries among the
\* supplied outcomes divided by the number of supplied outcomes, whatever the two
\* (non-empty) arguments, and lies within [0, 100].
C11_FCRIsShareOfTrueOutcomes ==
    (rates.fn = "FCR" /\ rates.called) =>
        /\ rates.result.den > 0
        /\ (Len(rates.gen_codes) > 0 /\ Len(rates.test_results) > 0) =>
              FracEq(rates.result,
                     Frac(100 * TrueEntries(rates.test_results), Len(rates.test_results)))
        /\ ~FracLess(rates.result, Frac(0, 1))
        /\ ~FracLess(Frac(100, 1), rates.result)

\* the input of a metric is empty: one of the lists it is handed has no entry
EmptyInput ==
    \/ rates.fn = "VIR" /\ (rates.source_codes = <<>> \/ rates.gen_codes = <<>>)
    \/ rates.fn = "SCR" /\ rates.gen_codes = <<>>
    \/ rates.fn = "FCR" /\ (rates.gen_codes = <<>> \/ rates.test_results = <<>>)

\* C12: each of the three aggregate metrics divides by a non-zero length whatever the
\* lists it is handed, lists of different lengths included, and returns 0 when its input
\* is empty.
C12_MetricsZeroOnEmptyInput ==
    rates.called =>
        /\ rates.result.den # 0
        /\ EmptyInput => rates.result.num = 0

\* functional_correctness_rate has been called with no command and some test outcomes,
\* lists of different lengths one of which is empty
C12_Witness ==
    /\ rates.called
    /\ rates.fn = "FCR"
    /\ rates.gen_codes = <<>>
    /\ Len(rates.test_results) = MaxPairs
    /\ rates.test_results[1]

----------------------------------------------------------------------------
(* metrics.py: calls of CodeBLEU.compute, the similarity scorer of the verifier *)

\* compute dividing by the number of candidate tokens for the number of reference tokens
CodeBLEU_compute_over_candidate(reference, candidate) ==
    LET ref_tokens  == SplitSet(reference)
        cand_tokens == SplitSet(candidate)
    IN  IF ref_tokens = {} THEN Frac(1, 1)
        ELSE Frac(Cardinality(ref_tokens \cap cand_tokens), Cardinality(cand_tokens))

\* CodeBLEU.compute as ComplianceVerifier.__init__ binds it (`self.codebleu = CodeBLEU()`)
Similarity_compute(reference, candidate) == CodeBLEU_compute(reference, candidate)

SimilarityWords ==
    { <<"G","e","t","-","P","r","o","c","e","s","s">>,
      <<"G","e","t","-","S","e","r","v","i","c","e">>,
      <<"-","N","a","m","e">> }

\* the strings handed to compute: the empty string, strings of white space only, and
\* commands of at most MaxWords words, a word possibly repeated, bare or padded
SimilarityTexts ==
    { <<>>, <<" ">>, <<" ", "\t", "\n">> }
    \cup { JoinWith(<<" ">>, ws) : ws \in SeqsUpTo(SimilarityWords, MaxWords) }
    \cup { <<" ">> \o w \o <<"\n">> : w \in SimilarityWords }

\* cb.compute(reference, candidate), as test_compute calls it
Compute ==
    /\ ~similarity.called
    /\ similarity' = [similarity EXCEPT
                         !.called = TRUE,
                         !.score = Similarity_compute(similarity.reference,
                                                      similarity.candidate)]
    /\ UNCHANGED <<verifyVars, scorer, metrics, executor, rates, sanitizer,
                   sandbox_dir, calls>>

\* two strings are about to be compared
InitSimilarity ==
    /\ VerifierIdle
    /\ scorer = IdleScorer
    /\ metrics = IdleMetrics
    /\ executor = IdleExecutor
    /\ rates = IdleRates
    /\ similarity \in [called : {FALSE}, reference : SimilarityTexts,
                        candidate : SimilarityTexts, score : {Frac(0, 1)}]
    /\ sanitizer = IdleSanitizer
    /\ sandbox_dir = EmptySandboxDir
    /\ calls = NoCalls

NextSimilarity == Compute

SpecSimilarity == InitSimilarity /\ [][NextSimilarity]_vars

\* C13: compute(x, x) = 1.0 for every non-empty x, and compute(r, c) lies in [0, 1] for
\* all strings r and c, the empty string included.
C13_SimilarityReflexiveAndBounded ==
    similarity.called =>
        /\ similarity.score.den > 0
        /\ ~FracLess(similarity.score, Frac(0, 1))
        /\ ~FracLess(Frac(1, 1), similarity.score)
        /\ (similarity.reference = similarity.candidate /\ similarity.reference # <<>>)
              => FracEq(similarity.score, Frac(1, 1))

\* a command of several words has been compared with itself
C13_Witness ==
    /\ similarity.called
    /\ similarity.reference = similarity.candidate
    /\ Cardinality(SplitSet(similarity.reference)) = MaxWords - 1
    /\ Len(similarity.reference) > 2 * MaxWords
    /\ FracEq(similarity.score, Frac(1, 1))

----------------------------------------------------------------------------
(* security_patterns.py and risk_profiler.py: the sanitizer *)

STR_InvokeExpression == <<"I","n","v","o","k","e","-","E","x","p","r","e","s","s","i","o","n">>
STR_IEX == <<"I","E","X">>
STR_InvokeRestMethod == <<"I","n","v","o","k","e","-","R","e","s","t","M","e","t","h","o","d">>

SINGLE_QUOTE == "'"
DOUBLE_QUOTE == "\""
\* the grave accent, U+0060, PowerShell's escape character, written by its name
BACKTICK == "U+0060"

\* the character class ["\'] of the transformation's regular expression
QuoteChars == {SINGLE_QUOTE, DOUBLE_QUOTE}

\* the least element of a non-empty set of integers
Least(S) == CHOOSE x \in S : \A y \in S : x <= y

\* the starts of the matches of r'["\'](.+?)["\']': a quote character, one or more
\* characters other than a newline, a quote character
MatchStarts(command) ==
    { i \in 1..Len(command) :
        /\ command[i] \in QuoteChars
        /\ \E j \in (i + 2)..Len(command) :
              /\ command[j] \in QuoteChars
              /\ \A k \in (i + 1)..(j - 1) : command[k] # "\n" }

\* re.search(r'["\'](.+?)["\']', command): the leftmost match, its group 1 the shortest
MatchEnds(command, i) ==
    { j \in (i + 2)..Len(command) :
        /\ command[j] \in QuoteChars
        /\ \A k \in (i + 1)..(j - 1) : command[k] # "\n" }

re_search_quoted(command) ==
    IF MatchStarts(command) = {} THEN [match |-> FALSE, inner |-> <<>>]
    ELSE LET i == Least(MatchStarts(command))
             j == Least(MatchEnds(command, i))
         IN  [match |-> TRUE, inner |-> SubSeq(command, i + 1, j - 1)]

\* s begins with p
StartsWith(s, p) == Len(p) <= Len(s) /\ SubSeq(s, 1, Len(p)) = p

RECURSIVE re_sub(_, _, _)
\* re.sub(pat, repl, s) for a pattern without metacharacters
re_sub(pat, repl, s) ==
    IF s = <<>> THEN <<>>
    ELSE IF StartsWith(s, pat)
         THEN repl \o re_sub(pat, repl, SubSeq(s, Len(pat) + 1, Len(s)))
         ELSE <<Head(s)>> \o re_sub(pat, repl, Tail(s))

RECURSIVE str_replace(_, _, _)
\* s.replace(c, repl) for a one-character c
str_replace(s, c, repl) ==
    IF s = <<>> THEN <<>>
    ELSE (IF Head(s) = c THEN repl ELSE <<Head(s)>>) \o str_replace(Tail(s), c, repl)

\* SecurityPatterns.apply_parameterized_transformation(command, pattern)
apply_parameterized_transformation(command, pattern) ==
    LET m == re_search_quoted(command)
    IN  IF (StrIn(STR_InvokeExpression, pattern) \/ StrIn(STR_IEX, pattern)) /\ m.match
        THEN <<"&", " ", "{", " ">> \o m.inner \o <<" ", "}">>
        ELSE IF StrIn(STR_DownloadString, pattern)
             THEN re_sub(STR_DownloadString, STR_InvokeRestMethod, command)
             ELSE command

\* RiskProfiler._escape_special_characters: a backtick is put before every double
\* quote, then every single quote is doubled
_escape_special_characters(cmd) ==
    str_replace(str_replace(cmd, DOUBLE_QUOTE, <<BACKTICK, DOUBLE_QUOTE>>),
                SINGLE_QUOTE, <<SINGLE_QUOTE, SINGLE_QUOTE>>)

RECURSIVE TransformEach(_, _, _)
\* `for pat in pats: if pat in command: sanitized = apply_parameterized_transformation(
\*  sanitized, pat)`
TransformEach(sanitized, pats, command) ==
    IF pats = <<>> THEN sanitized
    ELSE TransformEach(IF StrIn(Head(pats), command)
                       THEN apply_parameterized_transformation(sanitized, Head(pats))
                       ELSE sanitized,
                       Tail(pats), command)

\* RiskProfiler.profile_and_sanitize(command)
profile_and_sanitize(command) ==
    LET risk == calculate_risk(command)
        sanitized ==
            IF contains_critical(command)
            THEN TransformEach(command, CRITICAL_PATTERNS, command)
            ELSE IF contains_high(command)
                 THEN TransformEach(command, HIGH_RISK_PATTERNS, command)
                 ELSE command
    IN  [risk |-> risk, sanitized |-> _escape_special_characters(sanitized)]

SanitizerCommands ==
    { <<>>,
      <<"G","e","t","-","P","r","o","c","e","s","s">>,
      <<"I","n","v","o","k","e","-","E","x","p","r","e","s","s","i","o","n"," ","'","c","a","l","c",".","e","x","e","'">>,
      <<"I","n","v","o","k","e","-","E","x","p","r","e","s","s","i","o","n"," ","\"","G","e","t","-","P","r","o","c","e","s","s"," ","-","I","d"," ","$","p","i","d","\"">>,
      <<"I","E","X"," ","$","c","m","d">>,
      <<"i","e","x"," ","'","c","a","l","c","'">>,
      <<"I","n","v","o","k","e","-","M","i","m","i","k","a","t","z">>,
      <<"I","E","X"," ","'","a","\"">>,
      <<"I","E","X"," ","'","'">>,
      <<"$","w","c",".","D","o","w","n","l","o","a","d","S","t","r","i","n","g","(","$","u",")">>,
      <<"I","E","X"," ","$","w","c",".","D","o","w","n","l","o","a","d","S","t","r","i","n","g","(","'","u","'",")">>,
      <<"p","o","w","e","r","s","h","e","l","l"," ","-","E","x","e","c","u","t","i","o","n","P","o","l","i","c","y"," ","B","y","p","a","s","s">> }

\* the patterns handed to the transformation: the configured ones, and texts that name none
SanitizerPatterns ==
    Range(CRITICAL_PATTERNS) \cup Range(HIGH_RISK_PATTERNS)
    \cup Range(MEDIUM_RISK_PATTERNS) \cup Range(LOW_RISK_PATTERNS)
    \cup { <<>>, <<"i","e","x">> }

SanitizerCalls ==
    [fn : {"transform"}, called : {FALSE}, command : SanitizerCommands,
     pattern : SanitizerPatterns, risk : {0}, result : {<<>>}]
    \cup
    [fn : {"profile"}, called : {FALSE}, command : SanitizerCommands,
     pattern : {<<>>}, risk : {0}, result : {<<>>}]

\* sp.apply_parameterized_transformation(cmd, pattern), as test_transformation calls it
Transform ==
    /\ sanitizer.fn = "transform" /\ ~sanitizer.called
    /\ sanitizer' = [sanitizer EXCEPT
                        !.called = TRUE,
                        !.result = apply_parameterized_transformation(sanitizer.command,
                                                                      sanitizer.pattern)]
    /\ UNCHANGED <<verifyVars, scorer, metrics, executor, rates, similarity,
                   sandbox_dir, calls>>

\* rp.profile_and_sanitize(cmd), as test_profile_and_sanitize calls it
Profile ==
    /\ sanitizer.fn = "profile" /\ ~sanitizer.called
    /\ sanitizer' = [sanitizer EXCEPT
                        !.called = TRUE,
                        !.risk = profile_and_sanitize(sanitizer.command).risk,
                        !.result = profile_and_sanitize(sanitizer.command).sanitized]
    /\ UNCHANGED <<verifyVars, scorer, metrics, executor, rates, similarity,
                   sandbox_dir, calls>>

\* a command is about to be sanitized
InitSanitizer ==
    /\ VerifierIdle
    /\ scorer = IdleScorer
    /\ metrics = IdleMetrics
    /\ executor = IdleExecutor
    /\ rates = IdleRates
    /\ similarity = IdleSimilarity
    /\ sanitizer \in SanitizerCalls
    /\ sandbox_dir = EmptySandboxDir
    /\ calls = NoCalls

NextSanitizer == Transform \/ Profile

SpecSanitizer == InitSanitizer /\ [][NextSanitizer]_vars

\* a pattern names an expression-invocation pattern, or the remote-download pattern
NamesExpressionInvocation(pattern) == pattern \in {STR_InvokeExpression, STR_IEX}
NamesRemoteDownload(pattern) == pattern = STR_DownloadString

\* a command contains a quoted substring: text, possibly empty, between an opening quote
\* character and the next closing quote character of the same kind
HasQuotedSubstring(command) ==
    \E i \in 1..Len(command), j \in 1..Len(command) :
        i < j /\ command[i] \in QuoteChars /\ command[j] = command[i]

\* C14: the transformation returns the command unchanged when the pattern names neither
\* an expression-invocation pattern nor the remote-download pattern, and when it names
\* an expression-invocation pattern but the command contains no quoted substring.
C14_TransformationNoOpWhenNoRuleApplies ==
    (sanitizer.fn = "transform" /\ sanitizer.called) =>
        /\ (~NamesExpressionInvocation(sanitizer.pattern)
            /\ ~NamesRemoteDownload(sanitizer.pattern))
              => sanitizer.result = sanitizer.command
        /\ (NamesExpressionInvocation(sanitizer.pattern)
            /\ ~HasQuotedSubstring(sanitizer.command))
              => sanitizer.result = sanitizer.command

\* C15: for every command for which contains_critical is true, profile_and_sanitize
\* returns a risk score of at least 3, the score of the command, and a sanitized command
\* that differs from the command.
C15_CriticalCommandIsScoredAndRewritten ==
    (sanitizer.fn = "profile" /\ sanitizer.called /\ contains_critical(sanitizer.command)) =>
        /\ sanitizer.risk >= CRITICAL_WEIGHT
        /\ sanitizer.risk = calculate_risk(sanitizer.command)
        /\ sanitizer.result # sanitizer.command

----------------------------------------------------------------------------
(* secure_executor.py: concurrent calls of SecureExecutor.execute_script *)

\* the script texts of the items under verification
Scripts ==
    { <<"G","e","t","-","P","r","o","c","e","s","s">>,
      <<"G","e","t","-","S","e","r","v","i","c","e">> }

\* `script_path.write_text(script_content)`
WriteText(w) ==
    /\ calls[w].pc = "CALLED"
    /\ sandbox_dir' = [sandbox_dir EXCEPT ![script_path(calls[w].context)] =
                                              FileWith(calls[w].script_content)]
    /\ calls' = [calls EXCEPT ![w].pc = "WRITTEN"]
    /\ UNCHANGED <<verifyVars, scorer, metrics, executor, rates, similarity, sanitizer>>

\* `proc = subprocess.Popen(cmd, shell=False, ...)`: the interpreter starts, or Popen
\* raises and the call ends with the exception
Popen(w, started) ==
    /\ calls[w].pc = "WRITTEN"
    /\ calls' = [calls EXCEPT ![w].pc = IF started THEN "RUNNING" ELSE "RAISED"]
    /\ UNCHANGED <<verifyVars, scorer, metrics, executor, rates, similarity, sanitizer,
                   sandbox_dir>>

\* the interpreter process started with `-File str(script_path)` opens the path and runs
\* what it finds there
InterpreterReads(w) ==
    /\ calls[w].pc = "RUNNING"
    /\ calls' = [calls EXCEPT ![w].pc = "READ",
                              ![w].executed = sandbox_dir[script_path(calls[w].context)]]
    /\ UNCHANGED <<verifyVars, scorer, metrics, executor, rates, similarity, sanitizer,
                   sandbox_dir>>

\* `stdout, stderr = proc.communicate(); script_path.unlink(missing_ok=True); return ...`
UnlinkAndReturn(w) ==
    /\ calls[w].pc = "READ"
    /\ sandbox_dir' = [sandbox_dir EXCEPT ![script_path(calls[w].context)] = NoFile]
    /\ calls' = [calls EXCEPT ![w].pc = "RETURNED"]
    /\ UNCHANGED <<verifyVars, scorer, metrics, executor, rates, similarity, sanitizer>>

\* every worker has entered execute_script(script_content, context="sandbox")
InitSandbox ==
    /\ VerifierIdle
    /\ scorer = IdleScorer
    /\ metrics = IdleMetrics
    /\ executor = IdleExecutor
    /\ rates = IdleRates
    /\ similarity = IdleSimilarity
    /\ sanitizer = IdleSanitizer
    /\ sandbox_dir = EmptySandboxDir
    /\ calls \in [Workers -> [pc : {"CALLED"}, script_content : Scripts,
                              context : Contexts, executed : {NoFile}]]

NextSandbox ==
    \E w \in Workers :
        \/ WriteText(w)
        \/ \E started \in BOOLEAN : Popen(w, started)
        \/ InterpreterReads(w)
        \/ UnlinkAndReturn(w)

SpecSandbox == InitSandbox /\ [][NextSandbox]_vars

\* the call of worker w has written its file and its interpreter has not yet run it
AwaitingExecution(w) == calls[w].pc \in {"WRITTEN", "RUNNING"}

\* the call of worker w is between writing its file and its end
FileInUse(w) == calls[w].pc \in {"WRITTEN", "RUNNING", "READ"}

\* C17: concurrent calls never use the same temporary file: two calls that have a file
\* in use have different paths, the file of a call still awaiting execution holds the
\* text that call wrote (no other call has overwritten or deleted it), and the text a
\* call's interpreter ran is the text that call wrote.
C17_ConcurrentCallsUseOwnFile ==
    \A w \in Workers :
        /\ \A v \in Workers \ {w} :
              (FileInUse(w) /\ FileInUse(v))
                 => script_path(calls[w].context) # script_path(calls[v].context)
        /\ AwaitingExecution(w)
              => sandbox_dir[script_path(calls[w].context)] = FileWith(calls[w].script_content)
        /\ calls[w].pc \in {"READ", "RETURNED"}
              => calls[w].executed = FileWith(calls[w].script_content)

\* C18: once a call has ended, by returning or by raising, and no other call has a file
\* in use, the file the call wrote no longer exists.
C18_TempFileGoneAfterCall ==
    \A w \in Workers :
        (/\ calls[w].pc \in {"RETURNED", "RAISED"}
         /\ \A v \in Workers \ {w} : ~FileInUse(v))
            => ~sandbox_dir[script_path(calls[w].context)].exists

====
